---- MODULE Spec2Model ----
(***************************************************************************)
(* Model of the set-theoretic constraint algebra of src/src/constraint.rs. *)
(*                                                                         *)
(* A constraint is a tagged tuple whose first component is the variant     *)
(* name of the Rust enum `Constraint`:                                     *)
(*   <<"Top">>  <<"Bottom">>  <<"Int">>  <<"Float">>  <<"String">>         *)
(*   <<"LiteralInt", v>>  <<"LiteralFloat", f>>  <<"LiteralString", s>>    *)
(*   <<"Bound", start, end>>  <<"FloatBound", start, end>>                 *)
(*   <<"Tuple", <<c1, ..., cn>> >>  <<"Union", <<c1, ..., cn>> >>          *)
(*   <<"Difference", a, b>>                                                *)
(* An interval endpoint (enums `Bound` and `FloatBound`) is one of         *)
(*   <<"Inclusive", v>>  <<"Exclusive", v>>                                *)
(*   <<"NegativeInfinity">>  <<"PositiveInfinity">>                        *)
(* An f64 is modelled as an integer count of 1/FloatScale units, so that   *)
(* the integer i is the float i * FloatScale and a float f is integral     *)
(* exactly when f % FloatScale = 0.  NaN is outside the modelled domain.   *)
(* Option<T> is <<"None">> or <<"Some", t>>.                               *)
(***************************************************************************)
EXTENDS Integers, Sequences, FiniteSets, TLC

\* ------------------------------------------------------------------ bounds
\* Integer literals and interval endpoints range over 0..MaxInt.
MaxInt == 3
\* Float literals range over 0..MaxFloat units of 1/FloatScale.
MaxFloat == 3
\* Resolution of the modelled floats: one unit is 1/FloatScale.
FloatScale == 2
\* A tuple table (a union of key/value pairs) has at most MaxPairs members.
MaxPairs == 3
\* Width of the modelled i64: its values are -2^(WordBits-1) .. 2^(WordBits-1)-1.
WordBits == 4
\* reduce_union is called on a list of at most MaxQueue elements.
MaxQueue == 3
\* Leaves of a constraint graph carry the atoms 0..MaxLeaf.
MaxLeaf == 1
\* The recursion of the graph super_of is at most MaxStack frames deep.
MaxStack == 16

\* ---------------------------------------------------------------- helpers
Tag(c) == c[1]

None == <<"None">>
Some(x) == <<"Some", x>>
IsSome(o) == o[1] = "Some"
Unwrap(o) == o[2]

Max(a, b) == IF a >= b THEN a ELSE b
Min(a, b) == IF a <= b THEN a ELSE b

\* `i as f64`
AsF64(i) == i * FloatScale
\* `v.fract() == 0.0`
FractIsZero(f) == f % FloatScale = 0
\* `v.floor() as i64`, `v.ceil() as i64`
Floor(f) == f \div FloatScale
Ceil(f) == (f + FloatScale - 1) \div FloatScale

\* ------------------------------------------------- interval endpoint enums
Inclusive(v) == <<"Inclusive", v>>
Exclusive(v) == <<"Exclusive", v>>
NegativeInfinity == <<"NegativeInfinity">>
PositiveInfinity == <<"PositiveInfinity">>

\* struct Field(Bound, Bound) / FloatField(FloatBound, FloatBound)
Field(start, end) == <<start, end>>
FieldStart(f) == f[1]
FieldEnd(f) == f[2]

\* ---------------------------------------------------------- Field (i64)
\* Mutant of Field_intersection: an inclusive and an exclusive lower bound
\* that tie at the same value give the inclusive one.
Field_intersection_tie_inclusive(self, other) ==
    LET s1 == FieldStart(self)  s2 == FieldStart(other)
        e1 == FieldEnd(self)    e2 == FieldEnd(other)
        start_bound ==
            IF Tag(s1) = "NegativeInfinity" THEN s2
            ELSE IF Tag(s2) = "NegativeInfinity" THEN s1
            ELSE IF Tag(s1) = "PositiveInfinity" \/ Tag(s2) = "PositiveInfinity"
                 THEN PositiveInfinity
            ELSE IF Tag(s1) = "Inclusive" /\ Tag(s2) = "Inclusive"
                 THEN Inclusive(IF s1[2] > s2[2] THEN s1[2] ELSE s2[2])
            ELSE IF Tag(s1) = "Exclusive" /\ Tag(s2) = "Exclusive"
                 THEN Exclusive(IF s1[2] > s2[2] THEN s1[2] ELSE s2[2])
            ELSE LET a == IF Tag(s1) = "Inclusive" THEN s1[2] ELSE s2[2]
                     b == IF Tag(s1) = "Inclusive" THEN s2[2] ELSE s1[2]
                 IN IF a >= b THEN Inclusive(a) ELSE Exclusive(b)
        end_bound ==
            IF Tag(e1) = "PositiveInfinity" THEN e2
            ELSE IF Tag(e2) = "PositiveInfinity" THEN e1
            ELSE IF Tag(e1) = "NegativeInfinity" \/ Tag(e2) = "NegativeInfinity"
                 THEN NegativeInfinity
            ELSE IF Tag(e1) = "Inclusive" /\ Tag(e2) = "Inclusive"
                 THEN Inclusive(IF e1[2] < e2[2] THEN e1[2] ELSE e2[2])
            ELSE IF Tag(e1) = "Exclusive" /\ Tag(e2) = "Exclusive"
                 THEN Exclusive(IF e1[2] < e2[2] THEN e1[2] ELSE e2[2])
            ELSE LET a == IF Tag(e1) = "Inclusive" THEN e1[2] ELSE e2[2]
                     b == IF Tag(e1) = "Inclusive" THEN e2[2] ELSE e1[2]
                 IN IF a < b THEN Inclusive(a) ELSE Exclusive(b)
    IN Field(start_bound, end_bound)

Field_intersection(self, other) ==
    LET s1 == FieldStart(self)  s2 == FieldStart(other)
        e1 == FieldEnd(self)    e2 == FieldEnd(other)
        start_bound ==
            IF Tag(s1) = "NegativeInfinity" THEN s2
            ELSE IF Tag(s2) = "NegativeInfinity" THEN s1
            ELSE IF Tag(s1) = "PositiveInfinity" \/ Tag(s2) = "PositiveInfinity"
                 THEN PositiveInfinity
            ELSE IF Tag(s1) = "Inclusive" /\ Tag(s2) = "Inclusive"
                 THEN Inclusive(Max(s1[2], s2[2]))
            ELSE IF Tag(s1) = "Exclusive" /\ Tag(s2) = "Exclusive"
                 THEN Exclusive(Max(s1[2], s2[2]))
            ELSE LET a == IF Tag(s1) = "Inclusive" THEN s1[2] ELSE s2[2]
                     b == IF Tag(s1) = "Inclusive" THEN s2[2] ELSE s1[2]
                 IN IF a > b THEN Inclusive(a) ELSE Exclusive(b)
        end_bound ==
            IF Tag(e1) = "PositiveInfinity" THEN e2
            ELSE IF Tag(e2) = "PositiveInfinity" THEN e1
            ELSE IF Tag(e1) = "NegativeInfinity" \/ Tag(e2) = "NegativeInfinity"
                 THEN NegativeInfinity
            ELSE IF Tag(e1) = "Inclusive" /\ Tag(e2) = "Inclusive"
                 THEN Inclusive(Min(e1[2], e2[2]))
            ELSE IF Tag(e1) = "Exclusive" /\ Tag(e2) = "Exclusive"
                 THEN Exclusive(Min(e1[2], e2[2]))
            ELSE LET a == IF Tag(e1) = "Inclusive" THEN e1[2] ELSE e2[2]
                     b == IF Tag(e1) = "Inclusive" THEN e2[2] ELSE e1[2]
                 IN IF a < b THEN Inclusive(a) ELSE Exclusive(b)
    IN Field(start_bound, end_bound)

Field_contains(self, value) ==
    LET s == FieldStart(self)  e == FieldEnd(self)
        start_check ==
            CASE Tag(s) = "Inclusive" -> value >= s[2]
              [] Tag(s) = "Exclusive" -> value > s[2]
              [] Tag(s) = "NegativeInfinity" -> TRUE
              [] Tag(s) = "PositiveInfinity" -> FALSE
        end_check ==
            CASE Tag(e) = "Inclusive" -> value <= e[2]
              [] Tag(e) = "Exclusive" -> value < e[2]
              [] Tag(e) = "PositiveInfinity" -> TRUE
              [] Tag(e) = "NegativeInfinity" -> FALSE
    IN start_check /\ end_check

Field_contains_field(self, other) ==
    LET s1 == FieldStart(self)  s2 == FieldStart(other)
        e1 == FieldEnd(self)    e2 == FieldEnd(other)
        start_check ==
            IF Tag(s1) = "NegativeInfinity" THEN TRUE
            ELSE IF Tag(s2) = "NegativeInfinity" THEN FALSE
            ELSE IF Tag(s1) = "PositiveInfinity" THEN FALSE
            ELSE IF Tag(s2) = "PositiveInfinity" THEN FALSE
            ELSE IF Tag(s1) = "Inclusive" /\ Tag(s2) = "Inclusive" THEN s1[2] <= s2[2]
            ELSE IF Tag(s1) = "Inclusive" /\ Tag(s2) = "Exclusive" THEN s1[2] <= s2[2]
            ELSE IF Tag(s1) = "Exclusive" /\ Tag(s2) = "Inclusive" THEN s1[2] < s2[2]
            ELSE s1[2] <= s2[2]
        end_check ==
            IF Tag(e1) = "PositiveInfinity" THEN TRUE
            ELSE IF Tag(e2) = "PositiveInfinity" THEN FALSE
            ELSE IF Tag(e1) = "NegativeInfinity" THEN FALSE
            ELSE IF Tag(e2) = "NegativeInfinity" THEN FALSE
            ELSE IF Tag(e1) = "Inclusive" /\ Tag(e2) = "Inclusive" THEN e1[2] >= e2[2]
            ELSE IF Tag(e1) = "Inclusive" /\ Tag(e2) = "Exclusive" THEN e1[2] > e2[2]
            ELSE IF Tag(e1) = "Exclusive" /\ Tag(e2) = "Inclusive" THEN e1[2] >= e2[2]
            ELSE e1[2] >= e2[2]
    IN start_check /\ end_check

Field_is_empty(self) ==
    LET s == FieldStart(self)  e == FieldEnd(self)
    IN IF Tag(s) = "PositiveInfinity" \/ Tag(e) = "NegativeInfinity" THEN TRUE
       ELSE IF Tag(s) = "Inclusive" /\ Tag(e) = "Exclusive" /\ s[2] >= e[2] THEN TRUE
       ELSE IF Tag(s) = "Exclusive" /\ Tag(e) = "Inclusive" /\ s[2] >= e[2] THEN TRUE
       ELSE IF Tag(s) = "Inclusive" /\ Tag(e) = "Inclusive" /\ s[2] > e[2] THEN TRUE
       ELSE IF Tag(s) = "Exclusive" /\ Tag(e) = "Exclusive" /\ s[2] >= e[2] THEN TRUE
       ELSE FALSE

\* The enclosing interval built by Field::union and FloatField::union when the
\* intersection is not empty (the two match expressions are the same text).
EnclosingField(self, other) ==
    LET s1 == FieldStart(self)  s2 == FieldStart(other)
        e1 == FieldEnd(self)    e2 == FieldEnd(other)
        start_bound ==
            IF Tag(s1) = "NegativeInfinity" \/ Tag(s2) = "NegativeInfinity"
                 THEN NegativeInfinity
            ELSE IF Tag(s1) = "PositiveInfinity" THEN s2
            ELSE IF Tag(s2) = "PositiveInfinity" THEN s1
            ELSE IF Tag(s1) = "Inclusive" /\ Tag(s2) = "Inclusive"
                 THEN Inclusive(Min(s1[2], s2[2]))
            ELSE IF Tag(s1) = "Exclusive" /\ Tag(s2) = "Exclusive"
                 THEN Exclusive(Min(s1[2], s2[2]))
            ELSE LET a == IF Tag(s1) = "Inclusive" THEN s1[2] ELSE s2[2]
                     b == IF Tag(s1) = "Inclusive" THEN s2[2] ELSE s1[2]
                 IN IF a < b THEN Inclusive(a) ELSE Exclusive(b)
        end_bound ==
            IF Tag(e1) = "PositiveInfinity" \/ Tag(e2) = "PositiveInfinity"
                 THEN PositiveInfinity
            ELSE IF Tag(e1) = "NegativeInfinity" THEN e2
            ELSE IF Tag(e2) = "NegativeInfinity" THEN e1
            ELSE IF Tag(e1) = "Inclusive" /\ Tag(e2) = "Inclusive"
                 THEN Inclusive(Max(e1[2], e2[2]))
            ELSE IF Tag(e1) = "Exclusive" /\ Tag(e2) = "Exclusive"
                 THEN Exclusive(Max(e1[2], e2[2]))
            ELSE LET a == IF Tag(e1) = "Inclusive" THEN e1[2] ELSE e2[2]
                     b == IF Tag(e1) = "Inclusive" THEN e2[2] ELSE e1[2]
                 IN IF a > b THEN Inclusive(a) ELSE Exclusive(b)
    IN Field(start_bound, end_bound)

\* i64::MAX and i64::MIN of the modelled width.
I64_MAX == 2^(WordBits - 1) - 1
I64_MIN == -(2^(WordBits - 1))

\* `*a + 1` on i64 as a build without overflow checks computes it: the sum
\* wraps around.  A build with overflow checks panics when a is i64::MAX.
wrapping_add_one(v) == IF v = I64_MAX THEN I64_MIN ELSE v + 1

\* The integer adjacency test of Field::union on (x.end(), y.start()).
Field_adjacent(e, s) ==
    \/ Tag(e) = "Inclusive" /\ Tag(s) = "Inclusive" /\ wrapping_add_one(e[2]) = s[2]
    \/ Tag(e) = "Exclusive" /\ Tag(s) = "Inclusive" /\ e[2] = s[2]
    \/ Tag(e) = "Inclusive" /\ Tag(s) = "Exclusive" /\ e[2] = s[2]

Field_union(self, other) ==
    IF ~Field_is_empty(Field_intersection(self, other))
    THEN Some(EnclosingField(self, other))
    ELSE IF Field_adjacent(FieldEnd(self), FieldStart(other))
    THEN Some(Field(FieldStart(self), FieldEnd(other)))
    ELSE IF Field_adjacent(FieldEnd(other), FieldStart(self))
    THEN Some(Field(FieldStart(other), FieldEnd(self)))
    ELSE None

\* The guard `*a + 1 == *b` of the adjacency test is evaluated with a = i64::MAX.
Field_adjacent_overflows(e, s) ==
    Tag(e) = "Inclusive" /\ Tag(s) = "Inclusive" /\ e[2] = I64_MAX

\* Field::union(self, other) evaluates `*a + 1` with a = i64::MAX: in the first
\* adjacency match, or in the second one when the first returns nothing.
Field_union_overflows(self, other) ==
    /\ Field_is_empty(Field_intersection(self, other))
    /\ \/ Field_adjacent_overflows(FieldEnd(self), FieldStart(other))
       \/ /\ ~Field_adjacent(FieldEnd(self), FieldStart(other))
          /\ Field_adjacent_overflows(FieldEnd(other), FieldStart(self))

\* ------------------------------------------------------- FloatField (f64)
\* FloatField::intersection, contains, contains_field and is_empty are the
\* same match expressions as their Field counterparts, over f64 endpoints.
FloatField_intersection(self, other) == Field_intersection(self, other)

FloatField_contains(self, value) == Field_contains(self, value)

FloatField_contains_field(self, other) == Field_contains_field(self, other)

FloatField_is_empty(self) == Field_is_empty(self)

\* The float adjacency test: |a - b| < f64::EPSILON, which on the modelled
\* grid of floats is a = b.
FloatField_adjacent(e, s) ==
    \/ Tag(e) = "Inclusive" /\ Tag(s) = "Inclusive" /\ e[2] = s[2]
    \/ Tag(e) = "Exclusive" /\ Tag(s) = "Inclusive" /\ e[2] = s[2]
    \/ Tag(e) = "Inclusive" /\ Tag(s) = "Exclusive" /\ e[2] = s[2]

FloatField_union(self, other) ==
    IF ~FloatField_is_empty(FloatField_intersection(self, other))
    THEN Some(EnclosingField(self, other))
    ELSE IF FloatField_adjacent(FieldEnd(self), FieldStart(other))
    THEN Some(Field(FieldStart(self), FieldEnd(other)))
    ELSE IF FloatField_adjacent(FieldEnd(other), FieldStart(self))
    THEN Some(Field(FieldStart(other), FieldEnd(self)))
    ELSE None

\* ------------------------------------------------------- enum Constraint
Top == <<"Top">>
Bottom == <<"Bottom">>
IntC == <<"Int">>
FloatC == <<"Float">>
StringC == <<"String">>
LiteralInt(v) == <<"LiteralInt", v>>
LiteralFloat(f) == <<"LiteralFloat", f>>
LiteralString(s) == <<"LiteralString", s>>
Bound(s, e) == <<"Bound", s, e>>
FloatBound(s, e) == <<"FloatBound", s, e>>
Tuple(elems) == <<"Tuple", elems>>
Union(elems) == <<"Union", elems>>
Difference(a, b) == <<"Difference", a, b>>

\* The operations of impl Constraint call one another recursively.  Every
\* such call goes through Call, the single point of recursion: call_f(..) is
\* the call of f(..).
RECURSIVE Call(_, _)
call_super_of(self, other) == Call("super_of", <<self, other>>)
call_union(self, other) == Call("union", <<self, other>>)
call_intersection(self, other) == Call("intersection", <<self, other>>)
call_difference(self, other) == Call("difference", <<self, other>>)
call_reduce_difference(self, other) == Call("reduce_difference", <<self, other>>)
call_reduce_union(elements) == Call("reduce_union", <<elements>>)
call_reduce(self) == Call("reduce", <<self>>)
call_make_union_flat(self) == Call("make_union_flat", <<self>>)
call_reduce_union_step(queue, unique_elements) ==
    Call("reduce_union_step", <<queue, unique_elements>>)
call_reduce_union_step_overflows(queue, unique_elements) ==
    Call("reduce_union_step_overflows", <<queue, unique_elements>>)
call_union_overflows(self, other) == Call("union_overflows", <<self, other>>)
call_direct_union(self, other) == Call("direct_union", <<self, other>>)

RECURSIVE flat_map_make_union_flat(_)
RECURSIVE reduce_union_loop(_, _)
RECURSIVE difference_retain(_, _, _, _)
RECURSIVE difference_union_loop(_, _)

\* Mutant of super_of_tuple: the arity test is dropped, so the zip stops at
\* the shorter tuple.
super_of_tuple_zip_only(t1, t2) ==
    \A i \in 1..Min(Len(t1), Len(t2)) : call_super_of(t1[i], t2[i])

\* The (Tuple, Tuple) arm of super_of.
super_of_tuple(t1, t2) ==
    IF Len(t1) # Len(t2) THEN FALSE
    ELSE \A i \in 1..Len(t1) : call_super_of(t1[i], t2[i])

\* Mutant of super_of_union: every member of the union is asked to subsume
\* each member of the flattened other.
super_of_union_all(a_elements, other) ==
    LET b_elements == call_make_union_flat(other)
    IN \A j \in 1..Len(b_elements) :
           \A i \in 1..Len(a_elements) : call_super_of(a_elements[i], b_elements[j])

\* The (Union(a_elements), _) arm of super_of.
super_of_union(a_elements, other) ==
    LET b_elements == call_make_union_flat(other)
    IN \A j \in 1..Len(b_elements) :
           \E i \in 1..Len(a_elements) : call_super_of(a_elements[i], b_elements[j])

\* The arms of super_of below the four Top/Bottom arms, in match order.
super_of_arms(self, other) ==
    LET s == Tag(self)  o == Tag(other)
    IN IF s = "Int" /\ o = "LiteralInt" THEN TRUE
       ELSE IF s = "Float" /\ o = "LiteralFloat" THEN TRUE
       ELSE IF s = "FloatBound" /\ o = "FloatBound"
            THEN FloatField_contains_field(Field(self[2], self[3]), Field(other[2], other[3]))
       ELSE IF s = "FloatBound" /\ o = "LiteralFloat"
            THEN FloatField_contains(Field(self[2], self[3]), other[2])
       ELSE IF s = "FloatBound" /\ o = "LiteralInt"
            THEN FloatField_contains(Field(self[2], self[3]), AsF64(other[2]))
       ELSE IF s = "LiteralInt" /\ o = "LiteralInt" THEN self[2] = other[2]
       ELSE IF s = "LiteralFloat" /\ o = "LiteralFloat" THEN self[2] = other[2]
       ELSE IF s = "Int" /\ o = "Int" THEN TRUE
       ELSE IF s = "Float" /\ o = "Float" THEN TRUE
       ELSE IF s = "Int" /\ o = "Bound" THEN TRUE
       ELSE IF s = "Float" /\ o = "FloatBound" THEN TRUE
       ELSE IF s = "Float" /\ o = "LiteralInt" THEN TRUE
       ELSE IF s = "String" /\ o = "LiteralString" THEN TRUE
       ELSE IF s = "LiteralString" /\ o = "LiteralString" THEN self[2] = other[2]
       ELSE IF s = "String" /\ o = "String" THEN TRUE
       ELSE IF s = "Bound" /\ o = "Bound"
            THEN Field_contains_field(Field(self[2], self[3]), Field(other[2], other[3]))
       ELSE IF s = "Bound" /\ o = "LiteralInt"
            THEN Field_contains(Field(self[2], self[3]), other[2])
       ELSE IF s = "Tuple" /\ o = "Tuple" THEN super_of_tuple(self[2], other[2])
       ELSE IF s = "Union" THEN super_of_union(self[2], other)
       ELSE IF o = "Union"
            THEN \A j \in 1..Len(other[2]) : call_super_of(self, other[2][j])
       ELSE IF o = "Difference"
            THEN LET a_union_c == call_union(self, other[3])
                 IN call_super_of(a_union_c, other[2])
       ELSE IF s = "Difference"
            THEN LET b_intersect_c == call_intersection(self[3], other)
                 IN IF Tag(b_intersect_c) # "Bottom" THEN FALSE
                    ELSE call_super_of(self[2], other)
       ELSE FALSE

\* Mutant of super_of: the (Bottom, _) arm is matched before the (_, Bottom) arm.
super_of_bottom_first(self, other) ==
    IF Tag(self) = "Top" THEN TRUE
    ELSE IF Tag(self) = "Bottom" THEN FALSE
    ELSE IF Tag(other) = "Bottom" THEN TRUE
    ELSE IF Tag(other) = "Top" THEN FALSE
    ELSE super_of_arms(self, other)

\* super_of: the Top/Bottom arms are matched before any other arm.
super_of(self, other) ==
    IF Tag(self) = "Top" THEN TRUE
    ELSE IF Tag(other) = "Bottom" THEN TRUE
    ELSE IF Tag(self) = "Bottom" THEN FALSE
    ELSE IF Tag(other) = "Top" THEN FALSE
    ELSE super_of_arms(self, other)

equals(self, other) == call_super_of(self, other) /\ call_super_of(other, self)

\* Mutant of refine: the subsumption test is made in the wrong direction.
refine_swapped(self, other) == IF call_super_of(other, self) THEN other ELSE Bottom

refine(self, other) == IF call_super_of(self, other) THEN other ELSE Bottom

\* direct_union_internal: only two intervals of the same kind merge.
direct_union_internal(c1, c2) ==
    IF Tag(c1) = "FloatBound" /\ Tag(c2) = "FloatBound"
    THEN LET u == FloatField_union(Field(c1[2], c1[3]), Field(c2[2], c2[3]))
         IN IF IsSome(u) THEN Some(FloatBound(FieldStart(Unwrap(u)), FieldEnd(Unwrap(u))))
            ELSE None
    ELSE IF Tag(c1) = "Bound" /\ Tag(c2) = "Bound"
    THEN LET u == Field_union(Field(c1[2], c1[3]), Field(c2[2], c2[3]))
         IN IF IsSome(u) THEN Some(Bound(FieldStart(Unwrap(u)), FieldEnd(Unwrap(u))))
            ELSE None
    ELSE None

direct_union(self, other) ==
    IF call_super_of(self, other) THEN Some(self)
    ELSE IF call_super_of(other, self) THEN Some(other)
    ELSE LET r1 == direct_union_internal(self, other)
         IN IF IsSome(r1) THEN r1
            ELSE direct_union_internal(other, self)

\* Remove the i-th element of a sequence (Vec::remove).
RemoveAt(seq, i) == SubSeq(seq, 1, i - 1) \o SubSeq(seq, i + 1, Len(seq))

\* One iteration of the `while let Some(current) = queue.pop_front()` loop of
\* reduce_union, from the state <<queue, unique_elements>> to the next one.
reduce_union_step(queue, unique_elements) ==
    LET current == Head(queue)
        rest == Tail(queue)
    IN IF equals(current, Bottom) THEN <<rest, unique_elements>>
       ELSE LET is_absorbed == \E i \in 1..Len(unique_elements) :
                                   call_super_of(unique_elements[i], current)
                retained == SelectSeq(unique_elements,
                                LAMBDA e : call_super_of(e, current) \/ ~call_super_of(current, e))
            IN IF is_absorbed THEN <<rest, retained>>
               ELSE LET merging == {i \in 1..Len(retained) :
                                        IsSome(call_direct_union(current, retained[i]))}
                    IN IF merging = {} THEN <<rest, Append(retained, current)>>
                       ELSE LET i == CHOOSE k \in merging : \A m \in merging : m <= k
                            IN <<Append(rest, Unwrap(call_direct_union(current, retained[i]))),
                                 RemoveAt(retained, i)>>

\* direct_union(self, other) of two Bound constraints reaches `*a + 1` with
\* a = i64::MAX in one of its two calls of direct_union_internal.
direct_union_overflows(self, other) ==
    LET f1 == Field(self[2], self[3])
        f2 == Field(other[2], other[3])
    IN /\ ~call_super_of(self, other)
       /\ ~call_super_of(other, self)
       /\ \/ Field_union_overflows(f1, f2)
          \/ ~IsSome(Field_union(f1, f2)) /\ Field_union_overflows(f2, f1)

\* union(self, other) of two Bound constraints reaches that overflow: neither
\* subsumes the other, and reduce_union merges other with self by direct_union.
union_overflows(self, other) ==
    /\ ~call_super_of(self, other)
    /\ ~call_super_of(other, self)
    /\ direct_union_overflows(other, self)

\* The call current.direct_union(&e) reaches `*a + 1` with a = i64::MAX.
step_overflows(current, e) ==
    /\ Tag(current) = "Bound"
    /\ Tag(e) = "Bound"
    /\ direct_union_overflows(current, e)

\* The iteration of the loop on <<queue, unique_elements>> reaches that
\* overflow: current is neither Bottom nor absorbed, and the scan of the
\* retained elements from the last one down meets an overflowing call before
\* a call that returns Some.
reduce_union_step_overflows(queue, unique_elements) ==
    LET current == Head(queue)
        retained == SelectSeq(unique_elements,
                        LAMBDA e : call_super_of(e, current) \/ ~call_super_of(current, e))
    IN /\ ~equals(current, Bottom)
       /\ ~\E i \in 1..Len(unique_elements) : call_super_of(unique_elements[i], current)
       /\ \E k \in 1..Len(retained) :
              /\ step_overflows(current, retained[k])
              /\ \A j \in (k + 1)..Len(retained) :
                     \/ step_overflows(current, retained[j])
                     \/ ~IsSome(call_direct_union(current, retained[j]))

reduce_union_loop(queue, unique_elements) ==
    IF Len(queue) = 0 THEN unique_elements
    ELSE LET st == reduce_union_step(queue, unique_elements)
         IN reduce_union_loop(st[1], st[2])

reduce_union(elements) ==
    IF Len(elements) = 0 THEN Bottom
    ELSE IF Len(elements) = 1 THEN elements[1]
    ELSE LET unique_elements == reduce_union_loop(elements, <<>>)
         IN IF Len(unique_elements) = 0 THEN Bottom
            ELSE IF Len(unique_elements) = 1 THEN unique_elements[1]
            ELSE Union([i \in 1..Len(unique_elements) |-> call_reduce(unique_elements[i])])

\* Mutant of direct_difference: the `other.super_of(self)` arm is dropped.
direct_difference_no_absorb(self, other) ==
    IF Tag(other) = "Top" THEN Some(Bottom)
    ELSE IF Tag(self) = "Bottom" THEN Some(Bottom)
    ELSE IF Tag(other) = "Bottom" THEN Some(self)
    ELSE IF call_super_of(self, other) THEN None
    ELSE Some(self)

direct_difference(self, other) ==
    IF Tag(other) = "Top" THEN Some(Bottom)
    ELSE IF Tag(self) = "Bottom" THEN Some(Bottom)
    ELSE IF Tag(other) = "Bottom" THEN Some(self)
    ELSE IF call_super_of(other, self) THEN Some(Bottom)
    ELSE IF call_super_of(self, other) THEN None
    ELSE Some(self)

\* One pass of `new_union.retain(...)` in the (a, Union) arm of
\* reduce_difference: <<new_a, kept elements, modified>> after the elements
\* from index i on have been visited.
difference_retain(new_a, elems, i, acc) ==
    IF i > Len(elems) THEN <<new_a, acc[1], acc[2]>>
    ELSE LET d == call_reduce_difference(new_a, elems[i])
         IN IF IsSome(d)
            THEN difference_retain(Unwrap(d), elems, i + 1, <<acc[1], TRUE>>)
            ELSE difference_retain(new_a, elems, i + 1, <<Append(acc[1], elems[i]), acc[2]>>)

\* The `while modified` loop of the same arm: <<new_a, new_union>> at its end.
difference_union_loop(new_a, new_union) ==
    LET pass == difference_retain(new_a, new_union, 1, <<(<<>>), FALSE>>)
    IN IF pass[3] THEN difference_union_loop(pass[1], pass[2])
       ELSE <<pass[1], pass[2]>>

reduce_difference(self, other) ==
    IF Tag(self) = "Difference"
    THEN call_reduce_difference(self[2], call_union(self[3], other))
    ELSE IF Tag(self) = "Union"
    THEN Some(call_reduce_union([i \in 1..Len(self[2]) |-> call_difference(self[2][i], other)]))
    ELSE IF Tag(other) = "Union"
    THEN LET fin == difference_union_loop(self, other[2])
         IN IF Len(fin[2]) = 0 THEN Some(fin[1])
            ELSE Some(Difference(fin[1], call_reduce_union(fin[2])))
    ELSE IF Tag(other) = "Difference"
    THEN Some(call_reduce_union(<<call_difference(self, other[2]), call_intersection(self, other[3])>>))
    ELSE direct_difference(self, other)

difference(self, other) ==
    LET d == call_reduce_difference(self, other)
    IN IF IsSome(d) THEN Unwrap(d) ELSE Difference(self, other)

flat_map_make_union_flat(elements) ==
    IF Len(elements) = 0 THEN <<>>
    ELSE call_make_union_flat(Head(elements)) \o flat_map_make_union_flat(Tail(elements))

make_union_flat(self) ==
    IF Tag(self) = "Union" THEN flat_map_make_union_flat(self[2])
    ELSE <<self>>

reduce(self) ==
    IF Tag(self) = "Union" THEN call_reduce_union(self[2])
    ELSE IF Tag(self) = "Difference" THEN call_difference(self[2], self[3])
    ELSE self

union(self, other) ==
    IF call_super_of(self, other) THEN self
    ELSE IF call_super_of(other, self) THEN other
    ELSE call_reduce_union(call_make_union_flat(self) \o call_make_union_flat(other))

\* Endpoint conversions of the (Float, Bound) and (Int, FloatBound) arms.
bound_to_float(b) ==
    CASE Tag(b) = "Inclusive" -> Inclusive(AsF64(b[2]))
      [] Tag(b) = "Exclusive" -> Exclusive(AsF64(b[2]))
      [] Tag(b) = "NegativeInfinity" -> NegativeInfinity
      [] Tag(b) = "PositiveInfinity" -> PositiveInfinity

start_int(s) ==
    CASE Tag(s) = "Inclusive" -> Inclusive(Ceil(s[2]))
      [] Tag(s) = "Exclusive" -> Inclusive(Floor(s[2]) + 1)
      [] Tag(s) = "NegativeInfinity" -> NegativeInfinity

end_int(e) ==
    CASE Tag(e) = "Inclusive" -> Inclusive(Floor(e[2]))
      [] Tag(e) = "Exclusive" -> Inclusive(Ceil(e[2]) - 1)
      [] Tag(e) = "PositiveInfinity" -> PositiveInfinity

\* The closure specialized_intersection of direct_intersection.
specialized_intersection(c1, c2) ==
    LET s == Tag(c1)  o == Tag(c2)
    IN IF s = "Top" THEN Some(c2)
       ELSE IF s = "Bottom" THEN Some(Bottom)
       ELSE IF s = "Int" /\ o = "Int" THEN Some(IntC)
       ELSE IF s = "Float" /\ o = "Float" THEN Some(FloatC)
       ELSE IF s = "String" /\ o = "String" THEN Some(StringC)
       ELSE IF s = "Int" /\ o = "LiteralInt" THEN Some(LiteralInt(c2[2]))
       ELSE IF s = "Float" /\ o = "LiteralFloat" THEN Some(LiteralFloat(c2[2]))
       ELSE IF s = "String" /\ o = "LiteralString" THEN Some(LiteralString(c2[2]))
       ELSE IF s = "Int" /\ o = "Bound" THEN Some(Bound(c2[2], c2[3]))
       ELSE IF s = "Float" /\ o = "FloatBound" THEN Some(FloatBound(c2[2], c2[3]))
       ELSE IF s = "Float" /\ o = "Int" THEN Some(IntC)
       ELSE IF s = "Float" /\ o = "LiteralInt" THEN Some(LiteralFloat(AsF64(c2[2])))
       ELSE IF s = "Float" /\ o = "Bound"
            THEN Some(FloatBound(bound_to_float(c2[2]), bound_to_float(c2[3])))
       ELSE IF s = "Int" /\ o = "LiteralFloat"
            THEN IF FractIsZero(c2[2]) THEN Some(LiteralInt(Floor(c2[2])))
                 ELSE Some(Bottom)
       ELSE IF s = "Int" /\ o = "FloatBound"
            THEN IF Tag(c2[2]) = "PositiveInfinity" THEN Some(Bottom)
                 ELSE IF Tag(c2[3]) = "NegativeInfinity" THEN Some(Bottom)
                 ELSE LET result_field == Field(start_int(c2[2]), end_int(c2[3]))
                      IN IF Field_is_empty(result_field) THEN Some(Bottom)
                         ELSE Some(Bound(result_field[1], result_field[2]))
       ELSE IF s = "Bound" /\ o = "Bound"
            THEN LET i == Field_intersection(Field(c1[2], c1[3]), Field(c2[2], c2[3]))
                 IN IF Field_is_empty(i) THEN Some(Bottom)
                    ELSE Some(Bound(i[1], i[2]))
       ELSE IF s = "FloatBound" /\ o = "FloatBound"
            THEN LET i == FloatField_intersection(Field(c1[2], c1[3]), Field(c2[2], c2[3]))
                 IN IF FloatField_is_empty(i) THEN Some(Bottom)
                    ELSE Some(FloatBound(i[1], i[2]))
       ELSE IF s = "Bound" /\ o = "LiteralInt"
            THEN IF Field_contains(Field(c1[2], c1[3]), c2[2]) THEN Some(LiteralInt(c2[2]))
                 ELSE Some(Bottom)
       ELSE IF s = "FloatBound" /\ o = "LiteralFloat"
            THEN IF FloatField_contains(Field(c1[2], c1[3]), c2[2])
                 THEN Some(LiteralFloat(c2[2]))
                 ELSE Some(Bottom)
       ELSE IF s = "FloatBound" /\ o = "LiteralInt"
            THEN IF FloatField_contains(Field(c1[2], c1[3]), AsF64(c2[2]))
                 THEN Some(LiteralInt(c2[2]))
                 ELSE Some(Bottom)
       ELSE None

\* Mutant of direct_intersection: the fallback refines in one direction only.
direct_intersection_one_sided(self, other) ==
    LET r1 == specialized_intersection(self, other)
    IN IF IsSome(r1) THEN Unwrap(r1)
       ELSE LET r2 == specialized_intersection(other, self)
            IN IF IsSome(r2) THEN Unwrap(r2)
               ELSE call_union(refine(self, other), refine(self, other))

direct_intersection(self, other) ==
    LET r1 == specialized_intersection(self, other)
    IN IF IsSome(r1) THEN Unwrap(r1)
       ELSE LET r2 == specialized_intersection(other, self)
            IN IF IsSome(r2) THEN Unwrap(r2)
               ELSE call_union(refine(self, other), refine(other, self))

make_union(constraints) == call_reduce_union(constraints)

\* The nested `for a_elem in a { for b_elem in &b { ... } }` of intersection:
\* the pairwise direct intersections in row-major order.
intersection_elements(a, b) ==
    [k \in 1..(Len(a) * Len(b)) |->
        direct_intersection(a[((k - 1) \div Len(b)) + 1], b[((k - 1) % Len(b)) + 1])]

intersection(self, other) ==
    IF call_super_of(self, other) THEN other
    ELSE IF call_super_of(other, self) THEN self
    ELSE make_union(intersection_elements(call_make_union_flat(self), call_make_union_flat(other)))

make_difference(a, b) == call_difference(a, b)

make_pair(key, value) == Tuple(<<key, value>>)

make_tuple(elements) == Tuple(elements)

\* A call evaluates its arguments once, before the callee runs: v is the
\* tuple of their values.
Call(f, args) ==
    CHOOSE r \in {
        CASE f = "super_of" -> super_of(v[1], v[2])
          [] f = "union" -> union(v[1], v[2])
          [] f = "intersection" -> intersection(v[1], v[2])
          [] f = "difference" -> difference(v[1], v[2])
          [] f = "reduce_difference" -> reduce_difference(v[1], v[2])
          [] f = "reduce_union" -> reduce_union(v[1])
          [] f = "reduce" -> reduce(v[1])
          [] f = "make_union_flat" -> make_union_flat(v[1])
          [] f = "direct_union" -> direct_union(v[1], v[2])
          [] f = "reduce_union_step" -> reduce_union_step(v[1], v[2])
          [] f = "reduce_union_step_overflows" -> reduce_union_step_overflows(v[1], v[2])
          [] f = "union_overflows" -> union_overflows(v[1], v[2])
        : v \in {args}} : TRUE

\* ------------------------------------------------------------ input sets
IntValues == 0..MaxInt
FloatValues == 0..MaxFloat
StringValues == {"a", "b"}

\* Integer intervals: closed, half-infinite and half-open ones, and one that
\* is empty by Field::is_empty.
Bounds ==
    {Bound(Inclusive(p[1]), Inclusive(p[2])) :
        p \in {q \in IntValues \X IntValues : q[1] < q[2] /\ q[2] <= q[1] + 2}}
    \cup {Bound(NegativeInfinity, Inclusive(h)) : h \in {1}}
    \cup {Bound(Exclusive(l), PositiveInfinity) : l \in {1}}
    \cup {Bound(Inclusive(l), Exclusive(l + 2)) : l \in {0}}
    \cup {Bound(Exclusive(l), Exclusive(l + 2)) : l \in {0}}
    \cup {Bound(NegativeInfinity, PositiveInfinity)}
    \cup {Bound(Inclusive(1), Inclusive(0))}

FloatBounds ==
    {FloatBound(Inclusive(l), Inclusive(l + 2)) : l \in {0, 1} \cap FloatValues}
    \cup {FloatBound(Exclusive(0), PositiveInfinity)}

\* The variants that are neither Tuple, Union nor Difference.
Atoms ==
    {Top, Bottom, IntC, FloatC, StringC}
    \cup {LiteralInt(v) : v \in IntValues}
    \cup {LiteralFloat(f) : f \in FloatValues}
    \cup {LiteralString(s) : s \in StringValues}
    \cup Bounds \cup FloatBounds

\* Components of the compound constraints.
Keys == {LiteralInt(0), LiteralInt(1), IntC}
Parts == {LiteralInt(0), LiteralInt(1), IntC, Top, LiteralString("a"),
          Bound(Inclusive(0), Inclusive(1))}

Tuples ==
    {make_tuple(<<>>)}
    \cup {make_tuple(<<k>>) : k \in Keys}
    \cup {make_pair(k, v) : k \in Keys, v \in Parts}
    \cup {make_pair(make_pair(IntC, LiteralInt(0)), StringC),
          make_pair(make_pair(LiteralInt(1), LiteralInt(0)), LiteralString("a")),
          make_tuple(<<call_difference(IntC, LiteralInt(1))>>)}

\* Unions as Constraint::Union builds them (unreduced, possibly nested).
Unions ==
    {Union(<<LiteralInt(x), LiteralInt(y)>>) : x \in {0, 1}, y \in {1, 2}}
    \cup {Union(<<Union(<<LiteralInt(0), LiteralInt(1)>>), LiteralInt(1), LiteralInt(2)>>),
          Union(<<Bound(Inclusive(0), Inclusive(1)), LiteralInt(3)>>),
          Union(<<LiteralString("a"), IntC>>),
          Union(<<call_difference(IntC, LiteralInt(1)), LiteralInt(1)>>),
          Union(<<make_pair(LiteralInt(0), LiteralInt(1)), make_pair(LiteralInt(1), Top)>>),
          Union(<<Top, LiteralInt(1)>>),
          Union(<<LiteralInt(0), Bottom>>),
          Union(<<Bound(Inclusive(1), Inclusive(0)), LiteralInt(2)>>)}

\* Difference values as Constraint::difference surfaces them.
Differences ==
    {d \in {call_difference(x, y) :
                x \in {IntC, FloatC, StringC, Top, Bound(Inclusive(0), Inclusive(2)),
                       make_pair(IntC, IntC)},
                y \in {LiteralInt(1), LiteralFloat(1), LiteralString("a"),
                       Bound(Inclusive(0), Inclusive(1)),
                       make_pair(LiteralInt(0), LiteralInt(1))}} :
        Tag(d) = "Difference"}

Constraints == Atoms \cup Tuples \cup Unions \cup Differences

\* ------------------------------------------------------------------ state
\* A caller holds two constraints a and b and invokes one public operation
\* of the algebra on them; `result` is the constraint it returns and
\* `verdict` the boolean it returns (super_of, equals).
VARIABLES a, b, op, result, verdict

vars == <<a, b, op, result, verdict>>

Init ==
    /\ a \in Constraints
    /\ b \in Constraints
    /\ op = "none"
    /\ result = Bottom
    /\ verdict = FALSE

SuperOf ==
    /\ op = "none"
    /\ op' = "super_of"
    /\ verdict' = call_super_of(a, b)
    /\ UNCHANGED <<a, b, result>>

Equals ==
    /\ op = "none"
    /\ op' = "equals"
    /\ verdict' = equals(a, b)
    /\ UNCHANGED <<a, b, result>>

Refine ==
    /\ op = "none"
    /\ op' = "refine"
    /\ result' = refine(a, b)
    /\ UNCHANGED <<a, b, verdict>>

UnionOp ==
    /\ op = "none"
    /\ op' = "union"
    /\ result' = call_union(a, b)
    /\ UNCHANGED <<a, b, verdict>>

IntersectionOp ==
    /\ op = "none"
    /\ op' = "intersection"
    /\ result' = call_intersection(a, b)
    /\ UNCHANGED <<a, b, verdict>>

DifferenceOp ==
    /\ op = "none"
    /\ op' = "difference"
    /\ result' = call_difference(a, b)
    /\ UNCHANGED <<a, b, verdict>>

Reduce ==
    /\ op = "none"
    /\ op' = "reduce"
    /\ result' = call_reduce(a)
    /\ UNCHANGED <<a, b, verdict>>

MakeUnion ==
    /\ op = "none"
    /\ op' = "make_union"
    /\ result' = make_union(<<a, b>>)
    /\ UNCHANGED <<a, b, verdict>>

Next ==
    \/ SuperOf
    \/ Equals
    \/ Refine
    \/ UnionOp
    \/ IntersectionOp
    \/ DifferenceOp
    \/ Reduce
    \/ MakeUnion

Spec == Init /\ [][Next]_vars

\* ------------------------------------------------------- tuple indexing
\* The callers of tests::test1: a table T built by make_union from pairs
\* Pair(LiteralInt(k), v) with pairwise distinct keys and literal values, and
\* an index Pair(LiteralInt(k), Top).
LiteralValues == {LiteralInt(2), LiteralFloat(1), LiteralString("a")}

PairLists ==
    {s \in UNION {[1..n -> IntValues \X LiteralValues] : n \in 1..MaxPairs} :
        \A i, j \in 1..Len(s) : i # j => s[i][1] # s[j][1]}

Tables ==
    {make_union([i \in 1..Len(s) |-> make_pair(LiteralInt(s[i][1]), s[i][2])]) :
        s \in PairLists}

Indexes == {make_pair(LiteralInt(k), Top) : k \in IntValues}

InitIndex ==
    /\ a \in Tables
    /\ b \in Indexes
    /\ op = "none"
    /\ result = Bottom
    /\ verdict = FALSE

NextIndex ==
    \/ IntersectionOp
    \/ DifferenceOp

SpecIndex == InitIndex /\ [][NextIndex]_vars

\* The differences of tests::test1 applied in sequence: after
\* `tuple.difference(&index)` the caller removes a second index from the
\* constraint that is left, in the order of the keys as the test does.  a stays
\* the table, b is the last index used.
DifferenceAgain ==
    /\ op = "difference"
    /\ op' = "difference_twice"
    /\ b' \in {idx \in Indexes : idx[2][1][2] > b[2][1][2]}
    /\ result' = call_difference(result, b')
    /\ UNCHANGED <<a, verdict>>

NextDifference ==
    \/ DifferenceOp
    \/ DifferenceAgain

SpecDifference == InitIndex /\ [][NextDifference]_vars

\* ------------------------------------------------------ closed intervals
\* The callers of main (c14 union c15): two non-empty closed integer intervals
\* whose endpoints are small values or the ends of the i64 range.
IntervalValues == {I64_MIN, I64_MAX - 1, I64_MAX} \cup IntValues

ClosedBounds ==
    {Bound(Inclusive(p[1]), Inclusive(p[2])) :
        p \in {q \in IntervalValues \X IntervalValues : q[1] <= q[2]}}

\* The outcome of an operation that panics on an arithmetic overflow.
Panic == <<"Panic">>

InitInterval ==
    /\ a \in ClosedBounds
    /\ b \in ClosedBounds
    /\ op = "none"
    /\ result = Bottom
    /\ verdict = FALSE

\* union on two intervals: the value a build without overflow checks returns,
\* or the panic of a build with overflow checks when the addition overflows.
IntervalUnion ==
    /\ op = "none"
    /\ op' = "union"
    /\ result' \in {call_union(a, b)} \cup (IF call_union_overflows(a, b) THEN {Panic} ELSE {})
    /\ UNCHANGED <<a, b, verdict>>

NextInterval ==
    \/ IntervalUnion
    \/ IntersectionOp

SpecInterval == InitInterval /\ [][NextInterval]_vars

\* ------------------------------------------------------ interval kernel
\* The callers of the integer interval kernel: two Field values (held as the
\* Bound constraints that wrap them) whose finite endpoints are small values or
\* the ends of the i64 range.
KernelValues == {I64_MIN, 0, 1, I64_MAX}

KernelEndpoints ==
    {Inclusive(v) : v \in KernelValues} \cup {Exclusive(v) : v \in KernelValues}
    \cup {NegativeInfinity, PositiveInfinity}

KernelFields == {Bound(s, e) : s \in KernelEndpoints, e \in KernelEndpoints}

FieldOf(c) == Field(c[2], c[3])

InitKernel ==
    /\ a \in KernelFields
    /\ b \in KernelFields
    /\ op = "none"
    /\ result = Bottom
    /\ verdict = FALSE

\* Field::union: the Option a build without overflow checks returns, or the
\* panic of a build with overflow checks when `*a + 1` overflows.
FieldUnion ==
    /\ op = "none"
    /\ op' = "Field_union"
    /\ result' \in {Field_union(FieldOf(a), FieldOf(b))}
                    \cup (IF Field_union_overflows(FieldOf(a), FieldOf(b)) THEN {Panic} ELSE {})
    /\ UNCHANGED <<a, b, verdict>>

FieldIntersection ==
    /\ op = "none"
    /\ op' = "Field_intersection"
    /\ result' = Field_intersection(FieldOf(a), FieldOf(b))
    /\ UNCHANGED <<a, b, verdict>>

FieldContainsField ==
    /\ op = "none"
    /\ op' = "Field_contains_field"
    /\ verdict' = Field_contains_field(FieldOf(a), FieldOf(b))
    /\ UNCHANGED <<a, b, result>>

FieldIsEmpty ==
    /\ op = "none"
    /\ op' = "Field_is_empty"
    /\ verdict' = Field_is_empty(FieldOf(a))
    /\ UNCHANGED <<a, b, result>>

NextKernel ==
    \/ FieldUnion
    \/ FieldIntersection
    \/ FieldContainsField
    \/ FieldIsEmpty

SpecKernel == InitKernel /\ [][NextKernel]_vars

\* ------------------------------------------------------ interval algebra
\* The callers of the algebra on two Bound constraints of any endpoint kinds.
NextBounds ==
    \/ IntersectionOp
    \/ SuperOf

SpecBounds == InitKernel /\ [][NextBounds]_vars

\* ------------------------------------------------- reduce_union worklist
\* reduce_union run one iteration at a time.  In this specification `a` holds
\* the local `queue` and `b` the local `unique_elements`; op is "reduce_union"
\* while the loop runs.  The elements of the input list are constraints that
\* absorb, merge by direct_union or stay apart, some of them intervals that
\* end at the ends of the i64 range.
WorklistAtoms ==
    { Bottom, Top, IntC, LiteralInt(0), LiteralInt(1), LiteralFloat(1),
      Bound(Inclusive(0), Inclusive(1)), Bound(Inclusive(2), Inclusive(3)),
      Bound(Exclusive(0), Inclusive(3)),
      Bound(Inclusive(1), Inclusive(I64_MAX)),
      Bound(Inclusive(I64_MIN), Inclusive(I64_MIN)),
      Union(<<LiteralInt(0), LiteralInt(2)>>) }

WorklistInputs ==
    UNION {[1..n -> WorklistAtoms] : n \in 2..MaxQueue}

InitWorklist ==
    /\ a \in WorklistInputs
    /\ b = <<>>
    /\ op = "reduce_union"
    /\ result = Bottom
    /\ verdict = FALSE

\* One iteration of the loop, as a build without overflow checks runs it.
WorklistStep ==
    /\ op = "reduce_union"
    /\ Len(a) > 0
    /\ \E st \in {call_reduce_union_step(a, b)} :
           /\ a' = st[1]
           /\ b' = st[2]
    /\ UNCHANGED <<op, result, verdict>>

\* The iteration panics in a build with overflow checks.
WorklistPanic ==
    /\ op = "reduce_union"
    /\ Len(a) > 0
    /\ call_reduce_union_step_overflows(a, b)
    /\ op' = "panic"
    /\ result' = Panic
    /\ UNCHANGED <<a, b, verdict>>

\* The queue is empty: reduce_union builds its result and returns.
WorklistReturn ==
    /\ op = "reduce_union"
    /\ Len(a) = 0
    /\ op' = "reduce_union_return"
    /\ result' = IF Len(b) = 0 THEN Bottom
                 ELSE IF Len(b) = 1 THEN b[1]
                 ELSE Union([i \in 1..Len(b) |-> call_reduce(b[i])])
    /\ UNCHANGED <<a, b, verdict>>

NextWorklist ==
    \/ WorklistStep
    \/ WorklistPanic
    \/ WorklistReturn

\* The loop is sequential code: an iteration that can run does run.
SpecWorklist == InitWorklist /\ [][NextWorklist]_vars /\ WF_vars(NextWorklist)

\* -------------------------------------------------- recursive constraint graph
\* A graph constraint is <<graph, entry>>: graph maps names to nodes and entry
\* is a name of it.  A node is one of
\*   <<"T">>  <<"F">>  <<"Leaf", l>>  <<"Enum", <<n1, ..., nk>> >>
\*   <<"Pair", n1, n2>>  <<"Def", name>>
NodeT == <<"T">>
NodeF == <<"F">>
NodeLeaf(l) == <<"Leaf", l>>
NodeEnum(nodes) == <<"Enum", nodes>>
NodePair(first, second) == <<"Pair", first, second>>
NodeDef(name) == <<"Def", name>>

\* Def(n) resolves against the map of the graph it belongs to; every other
\* node is its own expansion.
resolve(graph, node) ==
    IF Tag(node) = "Def" THEN graph[node[2]] ELSE node

\* Mutant of assumed: the assumption set is never consulted.
assumed_never(gamma, x, y) == FALSE

\* The pair of nodes is in the assumption set.
assumed(gamma, x, y) == <<x, y>> \in gamma

\* The frames of the recursion.  <<"call", x, y>> is a pending decision
\* x super_of y; the other frames wait for the verdict of the call above them.
CallFrame(x, y) == <<"call", x, y>>

\* The outcome of one step of the recursion: a verdict returned to the frame
\* below (ret is Some(verdict)) or frames pushed in place of the current one
\* (ret is None), and the assumption set after the step.
Outcome(ret, push, gamma) == [ret |-> ret, push |-> push, gamma |-> gamma]

\* The decision x super_of y under the assumption set gamma, x a node of
\* graph_a and y a node of graph_b, up to its first recursive call.
graph_super_of_call(x, y, gamma, graph_a, graph_b) ==
    IF assumed(gamma, x, y) THEN Outcome(Some(TRUE), <<>>, gamma)
    ELSE IF Tag(x) = "Def" \/ Tag(y) = "Def"
    THEN Outcome(None, <<CallFrame(resolve(graph_a, x), resolve(graph_b, y)), <<"def", x, y>>>>,
                 gamma \cup {<<x, y>>})
    ELSE IF Tag(x) = "T" THEN Outcome(Some(TRUE), <<>>, gamma)
    ELSE IF Tag(y) = "F" THEN Outcome(Some(TRUE), <<>>, gamma)
    ELSE IF Tag(x) = "F" THEN Outcome(Some(FALSE), <<>>, gamma)
    ELSE IF Tag(y) = "T" THEN Outcome(Some(FALSE), <<>>, gamma)
    ELSE IF Tag(x) = "Leaf" /\ Tag(y) = "Leaf" THEN Outcome(Some(x[2] = y[2]), <<>>, gamma)
    ELSE IF Tag(x) = "Enum" /\ Tag(y) = "Enum"
    THEN IF Len(y[2]) = 0 THEN Outcome(Some(TRUE), <<>>, gamma)
         ELSE IF Len(x[2]) = 0 THEN Outcome(Some(FALSE), <<>>, gamma)
         ELSE Outcome(None, <<CallFrame(x[2][1], y[2][1]), <<"forall_exists", x[2], y[2], 1, 1>>>>, gamma)
    ELSE IF Tag(y) = "Enum"
    THEN IF Len(y[2]) = 0 THEN Outcome(Some(TRUE), <<>>, gamma)
         ELSE Outcome(None, <<CallFrame(x, y[2][1]), <<"forall", x, y[2], 1>>>>, gamma)
    ELSE IF Tag(x) = "Enum"
    THEN IF Len(x[2]) = 0 THEN Outcome(Some(FALSE), <<>>, gamma)
         ELSE Outcome(None, <<CallFrame(x[2][1], y), <<"exists", x[2], y, 1>>>>, gamma)
    ELSE IF Tag(x) = "Pair" /\ Tag(y) = "Pair"
    THEN Outcome(None, <<CallFrame(x[2], y[2]), <<"pair", x[3], y[3]>>>>, gamma)
    ELSE Outcome(Some(FALSE), <<>>, gamma)

\* The decision waiting in `frame` resumes with the verdict v of its call.
graph_super_of_return(frame, v, gamma) ==
    IF Tag(frame) = "def" THEN Outcome(Some(v), <<>>, gamma \ {<<frame[2], frame[3]>>})
    ELSE IF Tag(frame) = "pair"
    THEN IF v THEN Outcome(None, <<CallFrame(frame[2], frame[3])>>, gamma)
         ELSE Outcome(Some(FALSE), <<>>, gamma)
    ELSE IF Tag(frame) = "forall"
    THEN LET x == frame[2]
             B == frame[3]
             i == frame[4]
         IN IF ~v THEN Outcome(Some(FALSE), <<>>, gamma)
            ELSE IF i = Len(B) THEN Outcome(Some(TRUE), <<>>, gamma)
            ELSE Outcome(None, <<CallFrame(x, B[i + 1]), <<"forall", x, B, i + 1>>>>, gamma)
    ELSE IF Tag(frame) = "exists"
    THEN LET A == frame[2]
             y == frame[3]
             j == frame[4]
         IN IF v THEN Outcome(Some(TRUE), <<>>, gamma)
            ELSE IF j = Len(A) THEN Outcome(Some(FALSE), <<>>, gamma)
            ELSE Outcome(None, <<CallFrame(A[j + 1], y), <<"exists", A, y, j + 1>>>>, gamma)
    ELSE LET A == frame[2]
             B == frame[3]
             i == frame[4]
             j == frame[5]
         IN IF v
            THEN IF i = Len(B) THEN Outcome(Some(TRUE), <<>>, gamma)
                 ELSE Outcome(None, <<CallFrame(A[1], B[i + 1]), <<"forall_exists", A, B, i + 1, 1>>>>, gamma)
            ELSE IF j = Len(A) THEN Outcome(Some(FALSE), <<>>, gamma)
                 ELSE Outcome(None, <<CallFrame(A[j + 1], B[i]), <<"forall_exists", A, B, i, j + 1>>>>, gamma)

\* The graphs compared: every graph of one name whose node is an atom, a pair
\* of atoms or an enum of two atoms, and the recursive schemata
\*   ListOfT = Pair(T, ListOfT) | Nil,  DoubleList = Pair(T, Pair(T, DoubleList)) | Nil,
\*   Even = Pair(T, Odd) | Nil with Odd = Pair(T, Even),
\* and the finite lists Pair(1, Pair(1, Nil)) and Pair(1, Pair(1, T)); Nil is
\* the leaf 0.
LeafValues == 0..MaxLeaf

NodeAtoms == {NodeT, NodeF, NodeDef("X")} \cup {NodeLeaf(l) : l \in LeafValues}

NodeShapes ==
    NodeAtoms \cup {NodePair(p, q) : p, q \in NodeAtoms}
              \cup {NodeEnum(<<p, q>>) : p, q \in NodeAtoms}

ListOfT ==
    <<[n \in {"ListOfT"} |-> NodeEnum(<<NodePair(NodeT, NodeDef("ListOfT")), NodeLeaf(0)>>)],
      "ListOfT">>

DoubleList ==
    <<[n \in {"DoubleList"} |->
          NodeEnum(<<NodePair(NodeT, NodePair(NodeT, NodeDef("DoubleList"))), NodeLeaf(0)>>)],
      "DoubleList">>

EvenList ==
    <<[n \in {"Even", "Odd"} |->
          IF n = "Even" THEN NodeEnum(<<NodePair(NodeT, NodeDef("Odd")), NodeLeaf(0)>>)
          ELSE NodePair(NodeT, NodeDef("Even"))],
      "Even">>

ListOfOnes ==
    <<[n \in {"L"} |-> NodePair(NodeLeaf(1), NodePair(NodeLeaf(1), NodeLeaf(0)))], "L">>

ListOfOnesOpen ==
    <<[n \in {"L"} |-> NodePair(NodeLeaf(1), NodePair(NodeLeaf(1), NodeT))], "L">>

GraphConstraints ==
    {<<[n \in {"X"} |-> shape], "X">> : shape \in NodeShapes}
        \cup {ListOfT, DoubleList, EvenList, ListOfOnes, ListOfOnesOpen}

\* The graph super_of run one step at a time.  In this specification `result`
\* holds the two graph constraints compared, `a` the stack of frames (the top
\* first), `b` the assumption set, and `verdict` the value last returned; op is
\* "call" when the top frame is a pending decision and "return" when a
\* decision has returned.  The initial call is (entry_a, entry_b, {}).
InitGraph ==
    /\ result \in GraphConstraints \X GraphConstraints
    /\ a = <<CallFrame(result[1][1][result[1][2]], result[2][1][result[2][2]])>>
    /\ b = {}
    /\ op = "call"
    /\ verdict = FALSE

\* Apply the outcome of a step to the stack below the frame that took it.
GraphApply(out, rest) ==
    /\ Len(out.push \o rest) <= MaxStack
    /\ a' = out.push \o rest
    /\ b' = out.gamma
    /\ op' = IF IsSome(out.ret) THEN "return" ELSE "call"
    /\ verdict' = IF IsSome(out.ret) THEN Unwrap(out.ret) ELSE verdict
    /\ UNCHANGED result

GraphCall ==
    /\ op = "call"
    /\ \E out \in {graph_super_of_call(Head(a)[2], Head(a)[3], b, result[1][1], result[2][1])} :
           GraphApply(out, Tail(a))

GraphReturn ==
    /\ op = "return"
    /\ Len(a) > 0
    /\ \E out \in {graph_super_of_return(Head(a), verdict, b)} :
           GraphApply(out, Tail(a))

NextGraph ==
    \/ GraphCall
    \/ GraphReturn

\* The recursion is sequential code: a step that can run does run.
SpecGraph == InitGraph /\ [][NextGraph]_vars /\ WF_vars(NextGraph)

\* ================================================================= claims

\* C1: for all constraints A and B, A.difference(B).intersection(B).equals(Bottom)
\* is true: what is left after removing B shares nothing with B.
C1_DifferenceDisjointFromSubtrahend ==
    op = "difference" => equals(intersection(result, b), Bottom)

\* C2: for all constraints A and B, A.difference(B).union(A.intersection(B)).equals(A)
\* is true, also when the difference is surfaced as the lazy Difference(A, B).
C2_DifferenceUnionRestores ==
    op = "difference" => equals(union(result, intersection(a, b)), a)

\* C3: super_of is reflexive: for every constraint A of any variant,
\* A.super_of(A) is true and A.equals(A) is true.
C3_Reflexive ==
    (op \in {"super_of", "equals"} /\ a = b) => verdict

\* C4: Top.super_of(x) is true; x.super_of(Bottom) is true; Bottom.super_of(x)
\* is true only when x is Bottom; x.super_of(Top) is true only when x is Top,
\* whatever the variant of x (Union and Difference included).
C4_TopBottomArms ==
    op = "super_of" =>
        /\ (Tag(a) = "Top" => verdict)
        /\ (Tag(b) = "Bottom" => verdict)
        /\ (Tag(a) = "Bottom" /\ verdict => Tag(b) = "Bottom")
        /\ (Tag(b) = "Top" /\ verdict => Tag(a) = "Top")

\* A Union or Difference asked whether it contains Top answers no.
C4_Witness ==
    /\ op = "super_of"
    /\ Tag(a) \in {"Union", "Difference"}
    /\ Tag(b) = "Top"
    /\ ~verdict

\* C5: Float contains the integer domain: Float.super_of(Int),
\* Float.super_of(Bound(lo, hi)) and Float.super_of(LiteralInt(v)) are true.
C5_FloatContainsIntegers ==
    (op = "super_of" /\ Tag(a) = "Float" /\ Tag(b) \in {"Int", "Bound", "LiteralInt"})
        => verdict

\* C6: union and intersection are idempotent up to equals: A.union(A).equals(A)
\* and A.intersection(A).equals(A) for every constraint A.
C6_Idempotent ==
    (op \in {"union", "intersection"} /\ a = b) => equals(result, a)

\* C7: union and intersection are commutative up to equals:
\* A.union(B).equals(B.union(A)) and A.intersection(B).equals(B.intersection(A)).
C7_Commutative ==
    /\ op = "union" => equals(result, union(b, a))
    /\ op = "intersection" => equals(result, intersection(b, a))

\* C8: refine(self, other) returns other exactly when self.super_of(other) and
\* Bottom otherwise; so A.super_of(A.refine(B)) is true for all A and B.
C8_RefineSubsumed ==
    op = "refine" =>
        /\ (super_of(a, b) => result = b)
        /\ (~super_of(a, b) => result = Bottom)
        /\ super_of(a, result)

\* A refine that keeps a non-Bottom operand of a compound constraint.
C8_Witness ==
    /\ op = "refine"
    /\ Tag(a) \in {"Union", "Tuple", "Bound"}
    /\ Tag(b) # "Bottom"
    /\ result = b
    /\ a # b

\* C9: Tuple(xs).super_of(Tuple(ys)) is true if and only if xs and ys have the
\* same arity and xs[i].super_of(ys[i]) is true for every index i.
C9_TupleComponentwise ==
    (op = "super_of" /\ Tag(a) = "Tuple" /\ Tag(b) = "Tuple") =>
        (verdict <=> /\ Len(a[2]) = Len(b[2])
                     /\ \A i \in 1..Len(a[2]) : super_of(a[2][i], b[2][i]))

\* Two different pairs in the relation, componentwise.
C9_Witness ==
    /\ op = "super_of"
    /\ Tag(a) = "Tuple" /\ Tag(b) = "Tuple"
    /\ Len(a[2]) = 2 /\ Len(b[2]) = 2
    /\ a # b
    /\ verdict

\* The members of a table whose key is the key of the index idx.
MembersAt(T, idx) ==
    LET ms == make_union_flat(T)
    IN {ms[i] : i \in {j \in 1..Len(ms) : ms[j][2][1] = idx[2][1]}}

\* C10: for a union T of pairs Pair(LiteralInt(k_i), v_i) with pairwise
\* distinct keys and literal values, T.intersection(Pair(LiteralInt(k), Top))
\* equals the single member whose key is k, and Bottom when no member has key k.
C10_TupleIndexing ==
    op = "intersection" =>
        IF MembersAt(a, b) = {} THEN equals(result, Bottom)
        ELSE \A m \in MembersAt(a, b) : equals(result, m) /\ result = m

\* A table of MaxPairs members indexed at a key it holds.
C10_Witness ==
    /\ op = "intersection"
    /\ Tag(a) = "Union"
    /\ Len(a[2]) = MaxPairs
    /\ MembersAt(a, b) # {}
    /\ Tag(result) = "Tuple"

\* The union of the members of table T whose key is the key of no index in idxs.
Without(T, idxs) ==
    make_union(SelectSeq(make_union_flat(T),
                         LAMBDA m : \A idx \in idxs : m[2][1] # idx[2][1]))

\* C11: for a union T of pairs Pair(LiteralInt(k_i), v_i) with pairwise distinct
\* keys, T.difference(Pair(LiteralInt(k), Top)) equals the union of the members
\* whose key is not k; it equals T when no member has key k; and two such
\* differences in sequence remove both keys.
C11_TupleDifference ==
    [][/\ (op' = "difference" =>
              /\ equals(result', Without(a', {b'}))
              /\ (MembersAt(a', b') = {} => equals(result', a')))
        /\ (op' = "difference_twice" => equals(result', Without(a, {b, b'})))]_vars

\* Two different keys that the table holds have been removed from a table of
\* MaxPairs members.
C11_Witness ==
    /\ op = "difference_twice"
    /\ Tag(a) = "Union"
    /\ Len(a[2]) = MaxPairs
    /\ MembersAt(a, b) # {}
    /\ Len(make_union_flat(result)) = MaxPairs - 2
    /\ result # Bottom

\* C12: for two non-empty closed integer intervals Bound[a,b] and Bound[c,d],
\* union returns the single interval Bound[min(a,c), max(b,d)] when they
\* overlap, share an endpoint or are at unit distance, and a two-member Union
\* of the original intervals when at least one integer lies between them.
C12_IntervalUnion ==
    op = "union" =>
        LET lo1 == a[2][2]  hi1 == a[3][2]
            lo2 == b[2][2]  hi2 == b[3][2]
        IN IF lo2 <= hi1 + 1 /\ lo1 <= hi2 + 1
           THEN result = Bound(Inclusive(Min(lo1, lo2)), Inclusive(Max(hi1, hi2)))
           ELSE /\ Tag(result) = "Union"
                /\ Len(result[2]) = 2
                /\ {result[2][1], result[2][2]} = {a, b}

RECURSIVE UnionsReduced(_)
UnionsReduced(c) ==
    CASE Tag(c) = "Union" ->
            /\ \A i \in 1..Len(c[2]) :
                   /\ Tag(c[2][i]) \notin {"Bottom", "Top", "Union"}
                   /\ UnionsReduced(c[2][i])
            /\ \A i, j \in 1..Len(c[2]) : i # j => ~super_of(c[2][i], c[2][j])
      [] Tag(c) = "Tuple" -> \A i \in 1..Len(c[2]) : UnionsReduced(c[2][i])
      [] Tag(c) = "Difference" -> UnionsReduced(c[2]) /\ UnionsReduced(c[3])
      [] OTHER -> TRUE

\* C14: after reduce() and after make_union, for every input constraint, no
\* Union in the result contains Bottom, Top, a nested Union as a direct member,
\* or two distinct members m1, m2 with m1.super_of(m2).
C14_ReducedUnions ==
    op \in {"reduce", "make_union"} => UnionsReduced(result)

\* c is an interval that is empty by Field::is_empty / FloatField::is_empty.
IsEmptyInterval(c) ==
    \/ Tag(c) = "Bound" /\ Field_is_empty(Field(c[2], c[3]))
    \/ Tag(c) = "FloatBound" /\ FloatField_is_empty(Field(c[2], c[3]))

\* An empty interval occurs somewhere inside c.
RECURSIVE HasEmptyInterval(_)
HasEmptyInterval(c) ==
    CASE Tag(c) \in {"Union", "Tuple"} -> \E i \in 1..Len(c[2]) : HasEmptyInterval(c[2][i])
      [] Tag(c) = "Difference" -> HasEmptyInterval(c[2]) \/ HasEmptyInterval(c[3])
      [] OTHER -> IsEmptyInterval(c)

\* C15: for every Bound or FloatBound that is empty by the emptiness rules,
\* reduce() returns Bottom; and no result of reduce, make_union, union,
\* intersection or difference contains an empty interval.
C15_EmptyIntervals ==
    /\ (op = "reduce" /\ IsEmptyInterval(a)) => result = Bottom
    /\ op \in {"reduce", "make_union", "union", "intersection", "difference"}
           => ~HasEmptyInterval(result)

\* c is built from Bottom, Int, integer literals and integer intervals only.
RECURSIVE IsIntegerConstraint(_)
IsIntegerConstraint(c) ==
    CASE Tag(c) \in {"Bottom", "Int", "LiteralInt", "Bound"} -> TRUE
      [] Tag(c) = "Union" -> \A i \in 1..Len(c[2]) : IsIntegerConstraint(c[2][i])
      [] Tag(c) = "Difference" -> IsIntegerConstraint(c[2]) /\ IsIntegerConstraint(c[3])
      [] OTHER -> FALSE

\* The integer v lies above the start endpoint s / below the end endpoint e.
AboveStart(s, v) ==
    CASE Tag(s) = "Inclusive" -> s[2] <= v
      [] Tag(s) = "Exclusive" -> s[2] < v
      [] Tag(s) = "NegativeInfinity" -> TRUE
      [] Tag(s) = "PositiveInfinity" -> FALSE

BelowEnd(e, v) ==
    CASE Tag(e) = "Inclusive" -> v <= e[2]
      [] Tag(e) = "Exclusive" -> v < e[2]
      [] Tag(e) = "PositiveInfinity" -> TRUE
      [] Tag(e) = "NegativeInfinity" -> FALSE

\* The set of integers that an integer constraint denotes.
RECURSIVE Denotation(_)
Denotation(c) ==
    CASE Tag(c) = "Bottom" -> {}
      [] Tag(c) = "Int" -> I64_MIN..I64_MAX
      [] Tag(c) = "LiteralInt" -> {c[2]}
      [] Tag(c) = "Bound" -> {v \in I64_MIN..I64_MAX : AboveStart(c[2], v) /\ BelowEnd(c[3], v)}
      [] Tag(c) = "Union" -> UNION {Denotation(c[2][i]) : i \in 1..Len(c[2])}
      [] Tag(c) = "Difference" -> Denotation(c[2]) \ Denotation(c[3])

\* C16: equals is semantic set equality: for two constraints over integers,
\* a.equals(b) is true when they denote the same set of values and false when
\* they denote different sets.
C16_SemanticEquality ==
    (op = "equals" /\ IsIntegerConstraint(a) /\ IsIntegerConstraint(b)) =>
        (verdict <=> Denotation(a) = Denotation(b))

\* C17: reduce is idempotent up to equals: A.reduce().reduce().equals(A.reduce())
\* for every constraint A, and every value returned by union, intersection,
\* difference or make_union is a fixed point of reduce up to equals.
C17_ReduceIdempotent ==
    /\ op = "reduce" => equals(reduce(result), result)
    /\ op \in {"union", "intersection", "difference", "make_union"}
           => equals(reduce(result), result)

\* C18: the integer interval kernel is total over the whole i64 range: for
\* every pair of intervals, with i64::MAX as an inclusive upper endpoint
\* included, Field::union, Field::intersection, Field::contains_field and
\* Field::is_empty return a result and no addition overflows.
C18_KernelTotal ==
    /\ op \in {"Field_union", "Field_intersection", "Field_contains_field", "Field_is_empty"}
           => result # Panic
    /\ op = "Field_union" => ~Field_union_overflows(FieldOf(a), FieldOf(b))

\* C19: union reduction terminates: from every finite input list the worklist
\* loop of reduce_union reaches an empty queue after finitely many iterations.
C19_WorklistTerminates == <>(Len(a) = 0)

\* The graph super_of has returned to its caller.
GraphDecided == op = "return" /\ Len(a) = 0

\* C20: recursive-graph subsumption is decided finitely: for every pair of
\* finite constraint graphs, self-referential ones included, the coinductive
\* super_of with its assumption set terminates with a boolean result.
C20_GraphSubsumptionTerminates == <>(GraphDecided /\ verdict \in BOOLEAN)

\* ListOfT = Pair(T, ListOfT) | Nil compared with itself has been decided, and
\* the assumption set is empty again.
C20_Witness ==
    /\ GraphDecided
    /\ result = <<ListOfT, ListOfT>>
    /\ verdict = TRUE
    /\ b = {}

\* Every value of the modelled i64.
I64 == I64_MIN..I64_MAX

\* The bounds x and y are one Inclusive(v) and one Exclusive(v) of the same v.
TieAt(x, y) ==
    /\ {Tag(x), Tag(y)} = {"Inclusive", "Exclusive"}
    /\ x[2] = y[2]

\* C21: integer interval intersection is exact: for all intervals I and J and
\* every integer v, I.intersection(J).contains(v) iff I.contains(v) and
\* J.contains(v); an inclusive and an exclusive bound that tie at the same
\* value give the exclusive one.
C21_IntersectionExact ==
    op = "Field_intersection" =>
        /\ \A v \in I64 :
               Field_contains(result, v)
                   <=> (Field_contains(FieldOf(a), v) /\ Field_contains(FieldOf(b), v))
        /\ TieAt(a[2], b[2]) => FieldStart(result) = Exclusive(a[2][2])
        /\ TieAt(a[3], b[3]) => FieldEnd(result) = Exclusive(a[3][2])

\* [0, 1] and (0, +inf) have been intersected: the lower bounds tie at 0 and
\* the result (0, 1] holds the integer 1.
C21_Witness ==
    /\ op = "Field_intersection"
    /\ a = Bound(Inclusive(0), Inclusive(1))
    /\ b = Bound(Exclusive(0), PositiveInfinity)
    /\ result = Field(Exclusive(0), Inclusive(1))
    /\ Field_contains(result, 1)

\* The interval holds at least one integer.
HasInteger(f) == \E v \in I64 : Field_contains(f, v)

\* C22: integer interval union is exact when it merges: for all non-empty
\* intervals I and J, if I.union(J) returns Some(K) then K.contains(v) iff
\* I.contains(v) or J.contains(v), for every integer v; in particular an
\* Inclusive(a) that meets an Exclusive(a) on the same side is kept.
C22_UnionExact ==
    (/\ op = "Field_union"
     /\ IsSome(result)
     /\ HasInteger(FieldOf(a))
     /\ HasInteger(FieldOf(b)))
        => \A v \in I64 :
               Field_contains(Unwrap(result), v)
                   <=> (Field_contains(FieldOf(a), v) \/ Field_contains(FieldOf(b), v))

\* C23: interval subsumption is sound: for all intervals I and J, if
\* I.contains_field(J) returns true then every integer of J is in I; an
\* exclusive upper bound of I against an inclusive upper bound of J at the
\* same value, J holding that value, yields false.
C23_SubsumptionSound ==
    op = "Field_contains_field" =>
        /\ verdict => \A v \in I64 :
                          Field_contains(FieldOf(b), v) => Field_contains(FieldOf(a), v)
        /\ (/\ Tag(a[3]) = "Exclusive"
            /\ Tag(b[3]) = "Inclusive"
            /\ a[3][2] = b[3][2]
            /\ Field_contains(FieldOf(b), b[3][2])) => ~verdict

\* C24: the intersection of two integer intervals is Bottom exactly when they
\* share no integer: for all Bound values A and B where neither is super_of
\* the other, A.intersection(B) is Bottom iff no integer is contained in both.
C24_IntersectionBottom ==
    (/\ op = "intersection"
     /\ ~super_of(a, b)
     /\ ~super_of(b, a))
        => ((result = Bottom)
               <=> ~\E v \in I64 : Field_contains(FieldOf(a), v) /\ Field_contains(FieldOf(b), v))

\* Concrete values: the literals, and tuples whose components are literals.
ConcreteLiterals ==
    {LiteralInt(v) : v \in IntValues} \cup {LiteralFloat(f) : f \in FloatValues}
        \cup {LiteralString(s) : s \in StringValues}

ConcreteValues ==
    ConcreteLiterals
        \cup {make_tuple(<<>>)}
        \cup {make_tuple(<<x>>) : x \in {LiteralInt(0), LiteralInt(1)}}
        \cup {make_pair(x, y) : x \in {LiteralInt(0), LiteralInt(1)},
                                y \in {LiteralInt(0), LiteralInt(1), LiteralString("a")}}
        \cup {make_pair(make_pair(LiteralInt(1), LiteralInt(0)), LiteralString("a"))}

\* C25: intersection agrees with membership: for all constraints a and b and
\* every concrete value x, a.intersection(b).super_of(x) iff a.super_of(x)
\* and b.super_of(x), also for two Tuples that overlap componentwise without
\* either subsuming the other.
C25_IntersectionMembership ==
    op = "intersection" =>
        \A x \in ConcreteValues :
            call_super_of(result, x) <=> (call_super_of(a, x) /\ call_super_of(b, x))

\* The accumulated list U (held in b) at the start of an iteration of the
\* reduce_union loop: no Bottom, no member that subsumes another one, and no
\* two members that direct_union merges.
WorklistInvariant ==
    op = "reduce_union" =>
        /\ \A i \in 1..Len(b) : b[i] # Bottom
        /\ \A i, j \in 1..Len(b) :
               i # j => /\ ~call_super_of(b[i], b[j])
                        /\ ~IsSome(call_direct_union(b[i], b[j]))

\* An iteration that merges (it pops current and enqueues the merge, so the
\* queue keeps its length) removes from U, apart from what current subsumes,
\* only an element that the enqueued merge subsumes.
WorklistMerge ==
    (/\ op = "reduce_union"
     /\ op' = "reduce_union"
     /\ Len(a) > 0
     /\ Len(a') = Len(a))
        => \A i \in 1..Len(b) :
               (/\ ~\E k \in 1..Len(b') : b'[k] = b[i]
                /\ ~call_super_of(Head(a), b[i]))
                   => call_super_of(a'[Len(a')], b[i])

\* C26: loop invariant of union reduction: at the start of every iteration of
\* the reduce_union loop the accumulated list U holds no Bottom, no two
\* distinct members one of which subsumes the other, and no two members that
\* direct_union merges; and every element a merge step removes from U is
\* subsumed by the merged element enqueued in its place.
C26_WorklistInvariant == []WorklistInvariant /\ [][WorklistMerge]_vars

====
